---- MODULE Spec2Model ----
(***************************************************************************)
(* Model of src/app.py: a Streamlit page that geocodes a list of stop      *)
(* addresses, asks the Directions API for an optimized route, keeps        *)
(* per-API usage counters in the session state and shows a cost estimate.  *)
(*                                                                         *)
(* Streamlit runs the whole script (main) once per user interaction; the   *)
(* session state (API_USAGE, calculation_result) and the widget state      *)
(* (the text area) survive between runs.  One action of the model is one   *)
(* run of the script.                                                      *)
(*                                                                         *)
(* Python values:  None is the empty tuple and a present value x is <<x>>; *)
(* Python lists are sequences; a 0-based Python index i is the TLA+ index  *)
(* i + 1.  A line of text is a sequence of tokens, where the token " " is  *)
(* a run of whitespace and every other token is visible text.  Prices are  *)
(* exact, in units of 1/10000 yen.                                         *)
(***************************************************************************)
EXTENDS Integers, Sequences, FiniteSets, TLC

\* ------------------------------------------------------------------ bounds
\* most lines the user types into the text area
MaxLines == 3
\* the button is pressed only while fewer Geocoding units than this are used
MaxGeocodingUnits == 3

\* ------------------------------------------------------- Python-like values
None == << >>
Some(x) == << x >>
Truthy(v) == v # None

\* ------------------------------------------------------------ program data
\* the five sample addresses (romanised), the default text of the text area
SAMPLE_ADDRESSES ==
    << <<"Shinjuku3-1-1">>, <<"NishiShinjuku2-8-1">>, <<"Okubo1-1-1">>,
       <<"Takadanobaba1-1-1">>, <<"Yotsuya1-1-1">> >>

APIS == {"Geocoding API", "Distance Matrix API", "Directions API"}

\* price per billing unit, in 1/10000 yen: 0.5, 10.5 and 10.5 yen
API_COST ==
    [api \in APIS |->
        CASE api = "Geocoding API" -> 5000
          [] api = "Distance Matrix API" -> 105000
          [] api = "Directions API" -> 105000]

\* Distance Matrix elements per billing unit
ElementsPerUnit == 1000

\* ---------------------------------------------------------- text handling
\* str.strip(): drop the whitespace tokens at both ends of a line
RECURSIVE LStrip(_)
LStrip(line) ==
    IF line = << >> THEN line
    ELSE IF Head(line) = " " THEN LStrip(Tail(line)) ELSE line

RECURSIVE RStrip(_)
RStrip(line) ==
    IF line = << >> THEN line
    ELSE IF line[Len(line)] = " " THEN RStrip(SubSeq(line, 1, Len(line) - 1))
         ELSE line

Strip(line) == RStrip(LStrip(line))

\* [addr.strip() for addr in text.split("\n") if addr.strip()]
RECURSIVE ParseAddresses(_)
ParseAddresses(text) ==
    IF text = << >> THEN << >>
    ELSE IF Strip(Head(text)) # << >>
         THEN << Strip(Head(text)) >> \o ParseAddresses(Tail(text))
         ELSE ParseAddresses(Tail(text))

\* the lines the user can type: blank, whitespace only, padded and plain
RawLines == { << >>, <<"A">>, <<" ", "B", " ">> }

RECURSIVE SeqsUpTo(_, _)
SeqsUpTo(S, n) ==
    IF n = 0 THEN { << >> }
    ELSE LET shorter == SeqsUpTo(S, n - 1)
         IN  shorter \cup { Append(s, x) : s \in shorter, x \in S }

\* text.split("\n") has at least one line
Texts == SeqsUpTo(RawLines, MaxLines) \ { << >> }

\* ---------------------------------------------------------------- providers
\* what the Geocoding API does with one call
GeocodeOutcomes == {"found", "empty", "raise"}

\* the coordinate of candidate number rank for an address
Location(addr, rank) == [of |-> addr, rank |-> rank]

\* gmaps.geocode(addr) when it returns: a list of candidates, possibly empty
gmaps_geocode(addr, out) ==
    IF out = "found"
    THEN << [geometry |-> [location |-> Location(addr, 0)]],
            [geometry |-> [location |-> Location(addr, 1)]] >>
    ELSE << >>

\* all orders of the waypoint indices 0 .. n-1
PermSeqs(n) ==
    { p \in [1..n -> 0..(n - 1)] : \A i, j \in 1..n : p[i] = p[j] => i = j }

\* what the Directions API does with one call
DirectionsOutcomes(n) ==
    { [kind |-> "raise", order |-> << >>], [kind |-> "empty", order |-> << >>] }
    \cup { [kind |-> "route", order |-> p] : p \in PermSeqs(n) }

\* the legs between consecutive stops
Legs(stops) ==
    [k \in 1..(Len(stops) - 1) |->
        [start_location |-> stops[k], end_location |-> stops[k + 1]]]

\* gmaps.directions(...) when it returns: a list of route candidates
gmaps_directions(request, out) ==
    IF out.kind = "route"
    THEN << [waypoint_order |-> out.order,
             legs |-> Legs(<< request.origin >>
                           \o [k \in 1..Len(out.order) |->
                                  request.waypoints[out.order[k] + 1]]
                           \o << request.destination >>)] >>
    ELSE << >>

\* a provider script for one request: the outcome of the i-th geocode call
\* and of the directions call.  Calls after the first failing geocode call
\* are never issued, so their outcome is fixed to "found".
Scripts(n) ==
    { [geocode |-> g, directions |-> d] :
        g \in { s \in [1..n -> GeocodeOutcomes] :
                  \A i, j \in 1..n : (i < j /\ s[i] # "found") => s[j] = "found" },
        d \in DirectionsOutcomes(IF n >= 2 THEN n - 2 ELSE 0) }

NoScript == [geocode |-> << >>, directions |-> [kind |-> "none", order |-> << >>]]

\* the log of provider calls
GeocodeCall(addr) == [api |-> "geocode", address |-> << addr >>, request |-> << >>]
DirectionsCall(req) == [api |-> "directions", address |-> << >>, request |-> << req >>]
\* ------------------------------------------------------------ session state
VARIABLES
    addresses,           \* the address list read from the text area
    API_USAGE,           \* st.session_state.API_USAGE
    calculation_result,  \* st.session_state.calculation_result
    outcome,             \* how the last run of the script went
    provider,            \* what the providers did during the last run
    calls,               \* the provider calls of the last run, in order
    details,             \* what display_route_details did in the last run
    total_cost           \* what calculate_costs showed in the last run

vars == << addresses, API_USAGE, calculation_result, outcome, provider, calls,
           details, total_cost >>

\* ---------------------------------------------------------- calculate_route
\* GeocodeStep with the address skipped, instead of the run stopped, when the
\* geocoder finds nothing
GeocodeStepNoStop(acc, addr, out) ==
    IF out = "raise"
    THEN [acc EXCEPT !.calls = Append(@, GeocodeCall(addr)),
                     !.status = "error"]
    ELSE LET geocode_result == gmaps_geocode(addr, out)
             counted == [acc EXCEPT !.calls = Append(@, GeocodeCall(addr)),
                                    !.usage["Geocoding API"] = @ + 1]
         IN  IF geocode_result = << >>
             THEN counted
             ELSE [counted EXCEPT !.locations =
                       Append(@, geocode_result[1].geometry.location)]

\* one turn of the loop "for addr in addresses": the geocode call, the
\* Geocoding unit, the check of the result and the append
GeocodeStep(acc, addr, out) ==
    IF out = "raise"
    THEN [acc EXCEPT !.calls = Append(@, GeocodeCall(addr)),
                     !.status = "error"]
    ELSE LET geocode_result == gmaps_geocode(addr, out)
             counted == [acc EXCEPT !.calls = Append(@, GeocodeCall(addr)),
                                    !.usage["Geocoding API"] = @ + 1]
         IN  IF geocode_result = << >>
             THEN [counted EXCEPT !.status = "stopped"]
             ELSE [counted EXCEPT !.locations =
                       Append(@, geocode_result[1].geometry.location)]

RECURSIVE GeocodeLoop(_, _, _, _)
GeocodeLoop(acc, addrs, script, i) ==
    IF i > Len(addrs) \/ acc.status # "running" THEN acc
    ELSE GeocodeLoop(GeocodeStep(acc, addrs[i], script.geocode[i]),
                     addrs, script, i + 1)

\* elements_count counting the pairs with themselves
elements_count_square(num_addresses) == num_addresses * num_addresses

\* elements_count leaving out the return leg as well
elements_count_short(num_addresses) == num_addresses * (num_addresses - 2)

\* elements_count = num_addresses * (num_addresses - 1)
elements_count(num_addresses) == num_addresses * (num_addresses - 1)

\* DirectionsRequest with waypoints=locations[1:]
DirectionsRequestToEnd(locations) ==
    [origin |-> locations[1],
     destination |-> locations[Len(locations)],
     waypoints |-> SubSeq(locations, 2, Len(locations))]

\* the arguments of the directions call, from the resolved locations
DirectionsRequest(locations) ==
    [origin |-> locations[1],
     destination |-> locations[Len(locations)],
     waypoints |-> SubSeq(locations, 2, Len(locations) - 1)]

\* what "except Exception" does: report the error and return None
ExceptException(acc) == [acc EXCEPT !.status = "error", !.value = None]

\* calculate_route(addresses), run on the counters usage with the providers
\* behaving as in script.  status is "ok" when the function returned its
\* dictionary, "error" when it returned None from the except clause, and
\* "stopped" when st.stop() ended the run of the script (st.stop raises a
\* script-control exception that "except Exception" does not catch).
calculate_route(usage, addrs, script) ==
    LET start == [usage |-> usage, calls |-> << >>, locations |-> << >>,
                  status |-> "running", value |-> None]
        geo == GeocodeLoop(start, addrs, script, 1)
        counted == [geo EXCEPT !.usage["Distance Matrix API"] =
                                   @ + elements_count(Len(addrs))]
    IN  IF geo.status = "stopped" THEN geo
        ELSE IF geo.status = "error" THEN ExceptException(geo)
        ELSE IF counted.locations = << >>
             THEN ExceptException(counted)          \* locations[0]: IndexError
        ELSE LET request == DirectionsRequest(counted.locations)
                 called == [counted EXCEPT !.calls =
                                Append(@, DirectionsCall(request))]
             IN  IF script.directions.kind = "raise"
                 THEN ExceptException(called)
                 ELSE [called EXCEPT
                          !.usage["Directions API"] = @ + 1,
                          !.status = "ok",
                          !.value = Some([locations |-> called.locations,
                                          directions |->
                                              gmaps_directions(request,
                                                               script.directions)])]

\* -------------------------------------------------------------------- display
\* display_map(directions_result): TRUE when it raises (IndexError on
\* directions_result[0] or on legs[0])
display_map_raises(directions_result) ==
    \/ directions_result = << >>
    \/ directions_result[1].legs = << >>

\* WaypointAddress without the offset past the origin: addresses[i]
WaypointAddressNoOffset(addrs, i) ==
    IF i + 1 <= Len(addrs) THEN Some(addrs[i + 1]) ELSE None

\* addresses[i + 1] for a waypoint index i >= 0: the address, or None for an
\* IndexError
WaypointAddress(addrs, i) ==
    IF i + 2 <= Len(addrs) THEN Some(addrs[i + 2]) ELSE None

\* display_route_details(directions_result, addresses): the list
\* ordered_addresses, or an IndexError (from addresses[i + 1], addresses[0]
\* or legs[idx])
display_route_details(directions_result, addrs) ==
    LET waypoint_order == directions_result[1].waypoint_order
        legs == directions_result[1].legs
        picked == [k \in 1..Len(waypoint_order) |->
                      WaypointAddress(addrs, waypoint_order[k])]
    IN  IF \/ \E k \in 1..Len(waypoint_order) : picked[k] = << >>
           \/ addrs = << >>
        THEN [raised |-> TRUE, ordered_addresses |-> << >>]
        ELSE LET ordered_addresses ==
                     << addrs[1] >>
                     \o [k \in 1..Len(waypoint_order) |-> picked[k][1]]
                     \o << addrs[Len(addrs)] >>
             IN  [raised |-> Len(ordered_addresses) - 1 > Len(legs),
                  ordered_addresses |-> ordered_addresses]

\* Cost with every counter billed per single unit
CostPerUnit(api, usage) == usage * API_COST[api]

\* the price of the units used of one API
Cost(api, usage) ==
    IF api = "Distance Matrix API"
    THEN (usage * API_COST[api]) \div ElementsPerUnit
    ELSE usage * API_COST[api]

\* calculate_costs(): the total over the three counters
calculate_costs(usage) ==
    Cost("Geocoding API", usage["Geocoding API"])
    + Cost("Distance Matrix API", usage["Distance Matrix API"])
    + Cost("Directions API", usage["Directions API"])

\* ----------------------------------------------------------------------- main
\* the part of main after the button: show the stored result, if any
Display(result, addrs, usage) ==
    IF ~Truthy(result) \/ display_map_raises(result[1].directions)
    THEN [details |-> None, total_cost |-> None]
    ELSE LET shown == display_route_details(result[1].directions, addrs)
         IN  [details |-> Some(shown),
              total_cost |-> IF shown.raised THEN None
                             ELSE Some(calculate_costs(usage))]

\* one run of the script: addrs is the list main reads from the text area,
\* button is the state of the button, script is what the providers do
main(addrs, button, script) ==
    LET run == IF button
               THEN calculate_route(API_USAGE, addrs, script)
               ELSE [usage |-> API_USAGE, calls |-> << >>, locations |-> << >>,
                     status |-> "idle", value |-> calculation_result]
        result == IF run.status \in {"idle", "stopped"}
                  THEN calculation_result ELSE run.value
        shown == IF run.status = "stopped"
                 THEN [details |-> None, total_cost |-> None]
                 ELSE Display(result, addrs, run.usage)
    IN  /\ addresses' = addrs
        /\ API_USAGE' = run.usage
        /\ calculation_result' = result
        /\ outcome' = run.status
        /\ provider' = script
        /\ calls' = run.calls
        /\ details' = shown.details
        /\ total_cost' = shown.total_cost

\* the state after the first run of the script in a new session
Init ==
    /\ addresses = ParseAddresses(SAMPLE_ADDRESSES)
    /\ API_USAGE = [api \in APIS |-> 0]
    /\ calculation_result = None
    /\ outcome = "idle"
    /\ provider = NoScript
    /\ calls = << >>
    /\ details = None
    /\ total_cost = None

\* the user changes the text area: the script reruns, the button is not pressed
EditAddresses ==
    \E addrs \in { ParseAddresses(text) : text \in Texts } :
        main(addrs, FALSE, NoScript)

\* the user presses the button: the script reruns on the text as it stands
ClickCalculate ==
    /\ API_USAGE["Geocoding API"] < MaxGeocodingUnits
    /\ \E script \in Scripts(Len(addresses)) :
           main(addresses, TRUE, script)

Next == EditAddresses \/ ClickCalculate

Spec == Init /\ [][Next]_vars

\* ---------------------------------------------------------------- properties
GEO == "Geocoding API"
DM == "Distance Matrix API"
DIR == "Directions API"

\* the script run was a route-calculation request
Requested(o) == o # "idle"

\* every geocode call of the script finds the address
AllResolve(p) == \A i \in DOMAIN p.geocode : p.geocode[i] = "found"

\* the k-th address (k = 1 for the first) is the first one that does not
\* resolve: the geocoder returns an empty list for it
FirstUnresolvable(p, k) ==
    /\ k \in DOMAIN p.geocode
    /\ p.geocode[k] = "empty"
    /\ \A i \in 1..(k - 1) : p.geocode[i] = "found"

\* the geocode calls for the first k addresses, in order
GeocodeCalls(addrs, k) == [i \in 1..k |-> GeocodeCall(addrs[i])]

\* the coordinates of the addresses, in order
Coordinates(addrs) == [i \in 1..Len(addrs) |-> Location(addrs[i], 0)]

NumberOfGeocodeCalls(log) ==
    Cardinality({ i \in 1..Len(log) : log[i].api = "geocode" })

\* the stored route candidate 0
StoredRoute == calculation_result[1].directions[1]

\* order is a permutation of the interior indices 0 .. n-3
IsInteriorPermutation(order, n) ==
    /\ Len(order) = (IF n >= 2 THEN n - 2 ELSE 0)
    /\ \A i \in 0..(n - 3) : \E k \in 1..Len(order) : order[k] = i

Occurrences(seq, x) == Cardinality({ i \in 1..Len(seq) : seq[i] = x })

IsPermutationOf(s, t) ==
    /\ Len(s) = Len(t)
    /\ \A i \in 1..Len(t) : Occurrences(s, t[i]) = Occurrences(t, t[i])

\* display_route_details ran to its end on the stored route
DetailsShown == details # None /\ ~details[1].raised

\* C1: a request whose first unresolvable address is the k-th one records
\* exactly k Geocoding units (positions 0 .. k-1), issues the geocode calls
\* for the first k addresses only, once each, never calls the directions
\* provider and leaves the other two counters as they were.
C1_AbortAtFirstUnresolvable ==
    [][\A k \in 1..Len(addresses') :
          (Requested(outcome') /\ FirstUnresolvable(provider', k)) =>
              /\ API_USAGE'[GEO] = API_USAGE[GEO] + k
              /\ API_USAGE'[DM] = API_USAGE[DM]
              /\ API_USAGE'[DIR] = API_USAGE[DIR]
              /\ calls' = GeocodeCalls(addresses', k)]_vars

\* [A, nonexistent, C] on a fresh session: stopped with 2 Geocoding units
C1_Witness ==
    /\ outcome = "stopped"
    /\ Len(addresses) = 3
    /\ FirstUnresolvable(provider, 2)
    /\ API_USAGE[GEO] = 2 /\ API_USAGE[DM] = 0 /\ API_USAGE[DIR] = 0
    /\ Len(calls) = 2

\* C2: a request on N >= 2 addresses that all resolve, with a directions call
\* that returns, adds N, N*(N-1) and 1 to the three counters.
C2_SuccessfulRequestIncrements ==
    [][(/\ Requested(outcome')
        /\ Len(addresses') >= 2
        /\ AllResolve(provider')
        /\ provider'.directions.kind # "raise") =>
           /\ API_USAGE'[GEO] = API_USAGE[GEO] + Len(addresses')
           /\ API_USAGE'[DM] =
                  API_USAGE[DM] + Len(addresses') * (Len(addresses') - 1)
           /\ API_USAGE'[DIR] = API_USAGE[DIR] + 1]_vars

\* one successful request on three addresses in a fresh session: 3, 6 and 1
C2_Witness ==
    /\ outcome = "ok"
    /\ Len(addresses) = 3
    /\ provider.directions.kind = "route"
    /\ API_USAGE[GEO] = 3 /\ API_USAGE[DM] = 6 /\ API_USAGE[DIR] = 1

\* C3: a request that fails leaves the stored result as it was.
C3_FailedRequestKeepsResult ==
    [][outcome' \in {"stopped", "error"} =>
           calculation_result' = calculation_result]_vars

\* C4: a stored result has at least one route candidate.
C4_StoredResultHasRoute ==
    Truthy(calculation_result) => Len(calculation_result[1].directions) >= 1

\* C5: a request adds to the Geocoding counter the number of geocode calls it
\* issued, whatever their outcome.
C5_OneUnitPerGeocodeCall ==
    [][Requested(outcome') =>
           API_USAGE'[GEO] = API_USAGE[GEO] + NumberOfGeocodeCalls(calls')]_vars

\* C6: no step of the session decreases a usage counter.
C6_CountersNeverDecrease ==
    [][\A api \in APIS : API_USAGE'[api] >= API_USAGE[api]]_vars

\* a request that failed after it had recorded units
C6_Witness ==
    /\ outcome = "error"
    /\ Len(calls) >= 2
    /\ API_USAGE[GEO] >= 1

\* C7 as stated: whenever the displayed list was rebuilt from a waypoint order
\* that is a permutation of the interior indices of the address list, it has
\* the length of the address list, the same first and last address and is a
\* permutation of it.
C7_Original ==
    (DetailsShown /\ IsInteriorPermutation(StoredRoute.waypoint_order,
                                           Len(addresses))) =>
        /\ Len(details[1].ordered_addresses) = Len(addresses)
        /\ details[1].ordered_addresses[1] = addresses[1]
        /\ details[1].ordered_addresses[Len(details[1].ordered_addresses)] =
               addresses[Len(addresses)]
        /\ IsPermutationOf(details[1].ordered_addresses, addresses)

\* C7, amended: the same for address lists of at least two addresses.
C7_ReconstructedSequence ==
    (/\ DetailsShown
     /\ Len(addresses) >= 2
     /\ IsInteriorPermutation(StoredRoute.waypoint_order, Len(addresses))) =>
        /\ Len(details[1].ordered_addresses) = Len(addresses)
        /\ details[1].ordered_addresses[1] = addresses[1]
        /\ details[1].ordered_addresses[Len(details[1].ordered_addresses)] =
               addresses[Len(addresses)]
        /\ IsPermutationOf(details[1].ordered_addresses, addresses)

\* a route over five stops whose three waypoints are visited out of order
C7_Witness ==
    /\ DetailsShown
    /\ Len(addresses) = 5
    /\ StoredRoute.waypoint_order = << 2, 0, 1 >>
    /\ Len(details[1].ordered_addresses) = 5

\* C8: the total shown is g*0.5 + (d/1000)*10.5 + r*10.5 (here in 1/10000
\* yen: g*5000 + d*105 + r*105000), and a run of the script that only shows
\* the costs leaves the counters as they were.
C8_TotalCost ==
    [][Truthy(total_cost') =>
           /\ total_cost'[1] = API_USAGE'[GEO] * 5000 + API_USAGE'[DM] * 105
                               + API_USAGE'[DIR] * 105000
           /\ ~Requested(outcome') => API_USAGE' = API_USAGE]_vars

\* the counters 3, 6, 1 cost 12.063 yen
C8_Witness ==
    /\ API_USAGE[GEO] = 3 /\ API_USAGE[DM] = 6 /\ API_USAGE[DIR] = 1
    /\ total_cost = Some(120630)

\* C9: in a request whose N >= 2 addresses all resolve, the calls are the N
\* geocode calls in input order followed by one directions call from the
\* first coordinate to the last through the interior ones in input order,
\* and a returned result holds the N coordinates in input order.
C9_CallOrder ==
    (Requested(outcome) /\ Len(addresses) >= 2 /\ AllResolve(provider)) =>
        /\ calls = GeocodeCalls(addresses, Len(addresses))
                   \o << DirectionsCall(
                           [origin |-> Location(addresses[1], 0),
                            destination |->
                                Location(addresses[Len(addresses)], 0),
                            waypoints |->
                                [i \in 1..(Len(addresses) - 2) |->
                                    Location(addresses[i + 1], 0)]]) >>
        /\ outcome = "ok" =>
               calculation_result[1].locations = Coordinates(addresses)

\* three addresses, two of them the same, all resolved and routed
C9_Witness ==
    /\ outcome = "ok"
    /\ Len(addresses) = 3
    /\ addresses[2] = addresses[3]
    /\ Len(calls) = 4
    /\ calls[4].api = "directions"

\* C10: whenever display_route_details runs, the stored route fits the address
\* list it is given: one leg less than addresses, and every waypoint index
\* inside the interior of the list.
C10_DisplayedListMatchesResult ==
    details # None =>
        /\ Len(StoredRoute.legs) = Len(addresses) - 1
        /\ \A k \in 1..Len(StoredRoute.waypoint_order) :
               /\ 1 <= StoredRoute.waypoint_order[k] + 1
               /\ StoredRoute.waypoint_order[k] + 1 <= Len(addresses) - 2

====
